---- MODULE Spec2Model ----
(***************************************************************************)
(* Request-logging middleware of web/middleware/logger.go.                 *)
(*                                                                         *)
(* One invocation of the closure returned by loggerHandler is a process    *)
(* with a program counter named after the source line it is about to run.  *)
(* The host may run several invocations at once (one per slot); they share *)
(* only the process log and the clock.                                     *)
(*                                                                         *)
(* A bytes.Buffer is a sequence of runs [color, text]: cW appends a run    *)
(* carrying its colour annotation, WriteString a run without one.  The     *)
(* text of a line is the concatenation of the texts of its runs.           *)
(* Durations and instants are in milliseconds.                             *)
(***************************************************************************)
EXTENDS Integers, Sequences, FiniteSets, TLC

(* ------------------------------ bounds --------------------------------- *)

\* Number of times the clock advances in one behaviour.
MaxTicks == 3

\* The invocations the host may run at the same time (SpecConc).
Slots == {1, 2}

\* The slot used when the host serves one request at a time (Spec).
SoloSlots == {1}

\* Amounts (ms) by which the clock advances between two steps.
TickSteps == {250, 4500}

\* The same, for the concurrent specification.
ConcTickSteps == {4500}

(* --------------------------- program constants ------------------------- *)

\* http.StatusOK
StatusOK == 200

\* 500*time.Millisecond, in ms
FastLimit == 500

\* 5*time.Second, in ms
SlowLimit == 5000

(* ------------------------------ inputs --------------------------------- *)

XFF == "X-Forwarded-For"

\* A header mapping is a set of <<key, values>> pairs with distinct keys.
HeaderMaps ==
    { {},
      { <<XFF, <<"10.0.0.5">> >> },
      { <<XFF, <<"">> >> },
      { <<XFF, <<"", "10.0.0.5">> >>, <<"Accept", <<"a/b", "c/d">> >> },
      { <<XFF, <<"10.0.0.5", "10.0.0.6">> >>, <<"Accept", <<"a/b">> >>,
        <<"X-Empty", <<>> >> },
      { <<"Accept", <<"a/b", "c/d", "e/f">> >> } }

\* Inbound requests of the sequential specification.
Requests ==
    [ method : {"GET"}, url : {"/widgets?id=1"}, header : HeaderMaps,
      remoteAddr : {"192.0.2.1:4711"} ]

\* Inbound requests of the concurrent specification.
ConcRequests ==
    [ method : {"GET"}, url : {"/"},
      header : { { <<"Accept", <<"a/b", "c/d">> >> } },
      remoteAddr : {"192.0.2.1:4711"} ]

\* Request IDs the context may hold; "" is "none".
ReqIDs == {"", "abc123"}

\* In the concurrent specification each slot's context holds its own ID.
ConcReqIDs(r) == {"", <<"r1", "r2">>[r]}

\* Status codes the inner handler may pass to WriteHeader.  0 is left out:
\* it is the proxy's "not yet set" value.
Statuses == {7, 199, 200, 299, 300, 399, 404, 499, 500, 1000}

ConcStatuses == {404}

NoRequest == [ method |-> "", url |-> "", header |-> {}, remoteAddr |-> "" ]

(* ------------------------- text and formatting ------------------------- *)

Digit(d) == SubSeq("0123456789", d + 1, d + 1)

\* The decimal digits of n >= 0.
RECURSIVE Itoa(_)
Itoa(n) == IF n < 10 THEN Digit(n) ELSE Itoa(n \div 10) \o Digit(n % 10)

RECURSIVE Zeros(_)
Zeros(k) == IF k <= 0 THEN "" ELSE "0" \o Zeros(k - 1)

\* Faulty variant of Sprintf03d: the verb %d, without width.
SprintfD(n) == IF n >= 0 THEN Itoa(n) ELSE "-" \o Itoa(-n)

\* fmt's %03d: minimum width 3, padded with zeros, the sign inside the width.
Sprintf03d(n) ==
    IF n >= 0
    THEN Zeros(3 - Len(Itoa(n))) \o Itoa(n)
    ELSE "-" \o Zeros(2 - Len(Itoa(-n))) \o Itoa(-n)

\* fmt's %q on a string without characters that need escaping.
Quote(s) == "\"" \o s \o "\""

\* time.fmtFrac for a fraction of three digits: the fraction of v/1000
\* without trailing zeros, and no decimal point when the fraction is zero.
FmtFrac3(f) ==
    IF f = 0 THEN ""
    ELSE IF f % 100 = 0 THEN "." \o Digit(f \div 100)
    ELSE IF f % 10 = 0 THEN "." \o Digit(f \div 100) \o Digit((f \div 10) % 10)
    ELSE "." \o Digit(f \div 100) \o Digit((f \div 10) % 10) \o Digit(f % 10)

\* time.Duration.String for a duration of u >= 0 whole milliseconds.
DurationAbs(u) ==
    IF u = 0 THEN "0s"
    ELSE IF u < 1000 THEN Itoa(u) \o "ms"
    ELSE LET secs == u \div 1000
             mins == secs \div 60
             hrs  == mins \div 60
             tail == Itoa(secs % 60) \o FmtFrac3(u % 1000) \o "s"
         IN  IF mins = 0 THEN tail
             ELSE IF hrs = 0 THEN Itoa(mins % 60) \o "m" \o tail
             ELSE Itoa(hrs) \o "h" \o Itoa(mins % 60) \o "m" \o tail

DurationString(d) == IF d < 0 THEN "-" \o DurationAbs(-d) ELSE DurationAbs(d)

\* cW(buf, color, format, args...): the formatted text, annotated with color.
cW(buf, color, text) == Append(buf, [color |-> color, text |-> text])

\* buf.WriteString(s)
WriteString(buf, s) == Append(buf, [color |-> "none", text |-> s])

\* buf.String(), without the colour annotations.
RECURSIVE Text(_)
Text(buf) == IF buf = <<>> THEN "" ELSE Head(buf).text \o Text(Tail(buf))

(* ----------------------------- collaborators --------------------------- *)

\* GetReqID(*c)
GetReqID(c) == c

\* r.Header.Get(key): the first value of key, "" when there is none.
HeaderGet(h, key) ==
    IF \E p \in h : p[1] = key /\ Len(p[2]) > 0
    THEN (CHOOSE p \in h : p[1] = key)[2][1]
    ELSE ""

\* mutil.WrapWriter(w)
WrapWriter == [code |-> 0, wroteHeader |-> FALSE]

\* lw.WriteHeader(code): the first code written is the one kept.
WriteHeader(w, code) ==
    IF w.wroteHeader THEN w ELSE [code |-> code, wroteHeader |-> TRUE]

\* lw.Status()
Status(w) == w.code

(* ------------------------------ formatters ----------------------------- *)

\* Faulty variant of FromAddr: the header is not consulted.
FromAddr_RemoteOnly(R) == R.remoteAddr

\* printStart, lines 95-99: the address written after "from ".
FromAddr(R) ==
    LET h == HeaderGet(R.header, XFF)
    IN  IF h # "" THEN h ELSE R.remoteAddr

\* printStart: the line handed to log.Print.
printStart(id, R) ==
    LET b1 == IF id # "" THEN cW(<<>>, "bBlack", "[" \o id \o "] ") ELSE <<>>
        b2 == WriteString(b1, "Started ")
        b3 == cW(b2, "bMagenta", R.method \o " ")
        b4 == cW(b3, "nBlue", Quote(R.url) \o " ")
        b5 == WriteString(b4, "from ")
    IN  WriteString(b5, FromAddr(R))

\* printHeaders, lines 70-76: the values of one key from index ks on
\* (ks counts from 1 here, from 0 in the source).
RECURSIVE WriteValues(_, _, _)
WriteValues(buf, v, ks) ==
    IF ks > Len(v) THEN buf
    ELSE LET b1 == WriteString(buf, v[ks])
             b2 == IF ks < Len(v) THEN WriteString(b1, ", ") ELSE b1
         IN  WriteValues(b2, v, ks + 1)

\* Faulty variant of headerLine: the request ID is left out of header lines.
headerLine_NoPrefix(buf, id, k, v) == WriteValues(WriteString(buf, k \o ": "), v, 1)

\* printHeaders, lines 64-76: what one iteration of the loop over the
\* header mapping writes to buf for key k with values v.
headerLine(buf, id, k, v) ==
    LET b1 == IF id # "" THEN cW(buf, "bBlack", "[" \o id \o "] ") ELSE buf
        b2 == WriteString(b1, k \o ": ")
    IN  WriteValues(b2, v, 1)

\* Faulty variant of Reset: the buffer keeps the line just logged.
Reset_Kept(buf) == buf

\* printHeaders, line 80: buf.Reset()
Reset(buf) == <<>>

\* Faulty variant of StatusColor: the limits are compared with <=.
StatusColor_Inclusive(status) ==
    IF status <= 200 THEN "bBlue"
    ELSE IF status <= 300 THEN "bGreen"
    ELSE IF status <= 400 THEN "bCyan"
    ELSE IF status <= 500 THEN "bYellow"
    ELSE "bRed"

\* printEnd, lines 112-122: the colour of the status.
StatusColor(status) ==
    IF status < 200 THEN "bBlue"
    ELSE IF status < 300 THEN "bGreen"
    ELSE IF status < 400 THEN "bCyan"
    ELSE IF status < 500 THEN "bYellow"
    ELSE "bRed"

\* printEnd, lines 124-130: the colour of the duration.
DurationColor(dt) ==
    IF dt < FastLimit THEN "nGreen"
    ELSE IF dt < SlowLimit THEN "nYellow"
    ELSE "nRed"

\* printEnd: the line handed to log.Print.
printEnd(id, status, dt) ==
    LET b1 == IF id # "" THEN cW(<<>>, "bBlack", "[" \o id \o "] ") ELSE <<>>
        b2 == WriteString(b1, "Returning ")
        b3 == cW(b2, StatusColor(status), Sprintf03d(status))
        b4 == WriteString(b3, " in ")
    IN  cW(b4, DurationColor(dt), DurationString(dt))

\* Faulty variant of Sub: the operands are swapped.
Sub_Swapped(a, b) == b - a

\* t2.Sub(t1)
Sub(a, b) == a - b

(* -------------------------------- state -------------------------------- *)

VARIABLES
    verbose,        \* TRUE: built by LoggerVerbose, FALSE: by Logger
    pc,             \* per slot: the line the invocation is about to run
    req,            \* per slot: the inbound request r
    ctx,            \* per slot: the request ID held by the context c
    reqID,          \* per slot: local reqID
    hdrLeft,        \* per slot: pairs the loop of printHeaders has yet to visit
    hbuf,           \* per slot: the buffer of printHeaders
    lw,             \* per slot: the status-observing writer
    t1, t2,         \* per slot: the two instants
    now,            \* the clock
    ticks,          \* how often the clock has advanced
    log,            \* the process log: one entry per log.Print
    events,         \* per slot: what the invocation has done so far, in order
    firstSet,       \* per slot: first status the inner handler wrote, 0 if none
    overwriteTried  \* per slot: the inner handler wrote a different status later

vars == << verbose, pc, req, ctx, reqID, hdrLeft, hbuf, lw, t1, t2, now, ticks,
           log, events, firstSet, overwriteTried >>

locals == << reqID, hdrLeft, hbuf, lw, t1, t2 >>
handler == << firstSet, overwriteTried >>
world == << verbose, req, ctx, now, ticks >>

\* log.Print(line): one call appends one record.  req and kind tell which
\* invocation and which function made the call.
LogPrint(r, kind, line) ==
    log' = Append(log, [req |-> r, kind |-> kind, line |-> line])

Did(r, e) == events' = [events EXCEPT ![r] = Append(@, e)]

Goto(r, l) == pc' = [pc EXCEPT ![r] = l]

Init ==
    /\ verbose \in BOOLEAN
    /\ pc = [r \in Slots |-> "idle"]
    /\ req = [r \in Slots |-> NoRequest]
    /\ ctx = [r \in Slots |-> ""]
    /\ reqID = [r \in Slots |-> ""]
    /\ hdrLeft = [r \in Slots |-> {}]
    /\ hbuf = [r \in Slots |-> <<>>]
    /\ lw = [r \in Slots |-> WrapWriter]
    /\ t1 = [r \in Slots |-> 0]
    /\ t2 = [r \in Slots |-> 0]
    /\ now = 0
    /\ ticks = 0
    /\ log = <<>>
    /\ events = [r \in Slots |-> <<>>]
    /\ firstSet = [r \in Slots |-> 0]
    /\ overwriteTried = [r \in Slots |-> FALSE]

(* ------------------------------- actions ------------------------------- *)

\* The host calls the handler built by Logger or LoggerVerbose with request
\* R; the context of this request holds the request ID id.
Invoke(r, R, id) ==
    /\ pc[r] = "idle"
    /\ req' = [req EXCEPT ![r] = R]
    /\ ctx' = [ctx EXCEPT ![r] = id]
    /\ Goto(r, "L38")
    /\ UNCHANGED << verbose, now, ticks, log, events, locals, handler >>

\* line 38: reqID := GetReqID(*c)
ReadReqID(r) ==
    /\ pc[r] = "L38"
    /\ reqID' = [reqID EXCEPT ![r] = GetReqID(ctx[r])]
    /\ Goto(r, "L40")
    /\ UNCHANGED << world, log, events, hdrLeft, hbuf, lw, t1, t2, handler >>

\* line 40: printStart(reqID, r); lines 42-44 and 63: enter the loop of
\* printHeaders when verbose and the mapping is not empty.
PrintStart(r) ==
    /\ pc[r] = "L40"
    /\ LogPrint(r, "start", printStart(reqID[r], req[r]))
    /\ Did(r, "start")
    /\ IF verbose /\ req[r].header # {}
       THEN /\ hdrLeft' = [hdrLeft EXCEPT ![r] = req[r].header]
            /\ Goto(r, "L63")
       ELSE /\ Goto(r, "L46")
            /\ UNCHANGED hdrLeft
    /\ UNCHANGED << world, reqID, hbuf, lw, t1, t2, handler >>

\* lines 63-81: one iteration of the loop over r.Header, which visits the
\* keys in no particular order.
PrintHeader(r) ==
    /\ pc[r] = "L63"
    /\ \E p \in hdrLeft[r] :
          LET line == headerLine(hbuf[r], reqID[r], p[1], p[2])
          IN  /\ LogPrint(r, "header", line)
              /\ hbuf' = [hbuf EXCEPT ![r] = Reset(line)]
              /\ hdrLeft' = [hdrLeft EXCEPT ![r] = @ \ {p}]
              /\ Goto(r, IF hdrLeft[r] = {p} THEN "L46" ELSE "L63")
    /\ Did(r, "header")
    /\ UNCHANGED << world, reqID, lw, t1, t2, handler >>

\* line 46: lw := mutil.WrapWriter(w)
Wrap(r) ==
    /\ pc[r] = "L46"
    /\ lw' = [lw EXCEPT ![r] = WrapWriter]
    /\ Goto(r, "L48")
    /\ UNCHANGED << world, log, events, reqID, hdrLeft, hbuf, t1, t2, handler >>

\* line 48: t1 := time.Now()
StampStart(r) ==
    /\ pc[r] = "L48"
    /\ t1' = [t1 EXCEPT ![r] = now]
    /\ Did(r, "t1")
    /\ Goto(r, "L49")
    /\ UNCHANGED << world, log, reqID, hdrLeft, hbuf, lw, t2, handler >>

\* Faulty variant of Serve: the inner handler is started and not waited for.
Serve_NotAwaited(r) ==
    /\ pc[r] = "L49"
    /\ Did(r, "call")
    /\ Goto(r, "L51")
    /\ UNCHANGED << world, log, locals, handler >>

\* line 49: h.ServeHTTP(lw, r) is called
Serve(r) ==
    /\ pc[r] = "L49"
    /\ Did(r, "call")
    /\ Goto(r, "inner")
    /\ UNCHANGED << world, log, locals, handler >>

\* The inner handler calls lw.WriteHeader(s).
HandlerWriteHeader(r, s) ==
    /\ pc[r] = "inner"
    /\ lw' = [lw EXCEPT ![r] = WriteHeader(@, s)]
    /\ firstSet' = [firstSet EXCEPT ![r] = IF @ = 0 THEN s ELSE @]
    /\ overwriteTried' =
          [overwriteTried EXCEPT ![r] = @ \/ (firstSet[r] # 0 /\ firstSet[r] # s)]
    /\ UNCHANGED << world, pc, log, events, reqID, hdrLeft, hbuf, t1, t2 >>

\* The inner handler returns.
HandlerReturn(r) ==
    /\ pc[r] = "inner"
    /\ Did(r, "ret")
    /\ Goto(r, "L51")
    /\ UNCHANGED << world, log, locals, handler >>

\* Faulty variant of HandlerPanic: the middleware recovers and carries on.
HandlerPanic_Recovered(r) ==
    /\ pc[r] = "inner"
    /\ Did(r, "panic")
    /\ Goto(r, "L51")
    /\ UNCHANGED << world, log, locals, handler >>

\* The inner handler panics: the panic unwinds the invocation.
HandlerPanic(r) ==
    /\ pc[r] = "inner"
    /\ Did(r, "panic")
    /\ Goto(r, "panicked")
    /\ UNCHANGED << world, log, locals, handler >>

\* Faulty variant of DefaultStatus: the status is left as the handler left it.
DefaultStatus_Skipped(r) ==
    /\ pc[r] = "L51"
    /\ Goto(r, "L54")
    /\ UNCHANGED << world, log, events, locals, handler >>

\* lines 51-53: if lw.Status() == 0 { lw.WriteHeader(http.StatusOK) }
DefaultStatus(r) ==
    /\ pc[r] = "L51"
    /\ IF Status(lw[r]) = 0
       THEN /\ lw' = [lw EXCEPT ![r] = WriteHeader(@, StatusOK)]
            /\ Did(r, "default")
       ELSE UNCHANGED << lw, events >>
    /\ Goto(r, "L54")
    /\ UNCHANGED << world, log, reqID, hdrLeft, hbuf, t1, t2, handler >>

\* line 54: t2 := time.Now()
StampEnd(r) ==
    /\ pc[r] = "L54"
    /\ t2' = [t2 EXCEPT ![r] = now]
    /\ Did(r, "t2")
    /\ Goto(r, "L56")
    /\ UNCHANGED << world, log, reqID, hdrLeft, hbuf, lw, t1, handler >>

\* Faulty variant of PrintEnd: the request ID is a variable all invocations share.
PrintEnd_SharedID(r) ==
    /\ pc[r] = "L56"
    /\ LogPrint(r, "end", printEnd(reqID[1], Status(lw[r]), Sub(t2[r], t1[r])))
    /\ Did(r, "end")
    /\ Goto(r, "returned")
    /\ UNCHANGED << world, locals, handler >>

\* line 56: printEnd(reqID, lw, t2.Sub(t1)), and the handler returns
PrintEnd(r) ==
    /\ pc[r] = "L56"
    /\ LogPrint(r, "end", printEnd(reqID[r], Status(lw[r]), Sub(t2[r], t1[r])))
    /\ Did(r, "end")
    /\ Goto(r, "returned")
    /\ UNCHANGED << world, locals, handler >>

InFlight(r) == pc[r] \notin {"idle", "returned", "panicked"}

\* Time passes while a request is being served.
Tick(d) ==
    /\ ticks < MaxTicks
    /\ \E r \in Slots : InFlight(r)
    /\ now' = now + d
    /\ ticks' = ticks + 1
    /\ UNCHANGED << verbose, pc, req, ctx, log, events, locals, handler >>

\* The steps of the invocation in slot r.
Run(r) ==
    \/ ReadReqID(r)
    \/ PrintStart(r)
    \/ PrintHeader(r)
    \/ Wrap(r)
    \/ StampStart(r)
    \/ Serve(r)
    \/ HandlerReturn(r)
    \/ HandlerPanic(r)
    \/ DefaultStatus(r)
    \/ StampEnd(r)
    \/ PrintEnd(r)

\* One request at a time.
Next ==
    \/ \E r \in SoloSlots, R \in Requests, id \in ReqIDs : Invoke(r, R, id)
    \/ \E r \in SoloSlots : Run(r)
    \/ \E r \in SoloSlots, s \in Statuses : HandlerWriteHeader(r, s)
    \/ \E d \in TickSteps : Tick(d)

Spec == Init /\ [][Next]_vars

\* Two requests at once.
NextConc ==
    \/ \E r \in Slots : \E R \in ConcRequests, id \in ConcReqIDs(r) : Invoke(r, R, id)
    \/ \E r \in Slots : Run(r)
    \/ \E r \in Slots, s \in ConcStatuses : HandlerWriteHeader(r, s)
    \/ \E d \in ConcTickSteps : Tick(d)

SpecConc == Init /\ [][NextConc]_vars

(* ------------------------ vocabulary of the claims ---------------------- *)

StartsWith(t, p) == Len(t) >= Len(p) /\ SubSeq(t, 1, Len(p)) = p

\* The log records made for the invocation in slot r by one function.
Entries(r, kind) == { i \in DOMAIN log : log[i].req = r /\ log[i].kind = kind }

Has(r, e) == \E i \in DOMAIN events[r] : events[r][i] = e

\* The bracket prefix a request ID calls for.
Bracket(id) == IF id = "" THEN "" ELSE "[" \o id \o "] "

\* The run of an end line that holds the status, and the one that holds the
\* duration: "Returning ", status, " in ", duration are its last four runs.
StatusRun(line) == line[Len(line) - 2]
DurationRun(line) == line[Len(line)]

\* The run of a start line that holds the address: its last run.
AddrRun(line) == line[Len(line)]

IsDigits(t) == \A i \in 1..Len(t) : \E d \in 0..9 : Digit(d) = SubSeq(t, i, i)

DigitVal(c) == CHOOSE d \in 0..9 : Digit(d) = c

RECURSIVE Atoi(_)
Atoi(t) ==
    IF Len(t) = 0 THEN 0
    ELSE 10 * Atoi(SubSeq(t, 1, Len(t) - 1)) + DigitVal(SubSeq(t, Len(t), Len(t)))

RECURSIVE Join(_)
Join(v) ==
    IF Len(v) = 0 THEN ""
    ELSE IF Len(v) = 1 THEN v[1]
    ELSE v[1] \o ", " \o Join(Tail(v))

IsPrefixOf(a, b) == Len(a) <= Len(b) /\ SubSeq(b, 1, Len(a)) = a

RECURSIVE Repeat(_, _)
Repeat(e, n) == IF n <= 0 THEN <<>> ELSE <<e>> \o Repeat(e, n - 1)

Started(r) == pc[r] # "idle"

(* -------------------------------- claims -------------------------------- *)

\* C1: every line logged for a request begins with "[X] " when the request
\* ID X held by the context is not empty, and does not begin with a bracket
\* when it is empty; start, header and end lines alike.
C1_SamePrefixOnEveryLine ==
    \A i \in DOMAIN log :
        LET id == ctx[log[i].req]
            t  == Text(log[i].line)
        IN  IF id # "" THEN StartsWith(t, "[" \o id \o "] ")
            ELSE ~StartsWith(t, "[")

C1_Witness ==
    \E r \in Slots :
        /\ pc[r] = "returned"
        /\ ctx[r] # ""
        /\ Cardinality(Entries(r, "header")) >= 2
        /\ Entries(r, "end") # {}

\* C2: when the inner handler returned without ever setting a status, the
\* middleware sets 200 and the end line reports 200.
C2_DefaultStatusIs200 ==
    \A r \in Slots :
        (Has(r, "ret") /\ firstSet[r] = 0) =>
            /\ pc[r] \in {"L54", "L56", "returned"} => Status(lw[r]) = 200
            /\ pc[r] \in {"L54", "L56", "returned"} => Has(r, "default")
            /\ pc[r] = "returned" =>
                   \A i \in Entries(r, "end") : StatusRun(log[i].line).text = "200"

C2_Witness ==
    \E r \in Slots :
        /\ pc[r] = "returned"
        /\ firstSet[r] = 0
        /\ Entries(r, "end") # {}

\* C3: when the inner handler set a status S, the end line reports S: the
\* first status set, not 200 and not a status set later, in decimal, padded
\* with zeros to three digits.
C3_ReportsFirstStatusPadded ==
    \A r \in Slots :
        firstSet[r] # 0 =>
            /\ Status(lw[r]) = firstSet[r]
            /\ ~Has(r, "default")
            /\ \A i \in Entries(r, "end") :
                   LET t == StatusRun(log[i].line).text
                   IN  /\ IsDigits(t)
                       /\ Atoi(t) = firstSet[r]
                       /\ Len(t) = IF firstSet[r] < 1000 THEN 3 ELSE Len(Itoa(firstSet[r]))
                       /\ firstSet[r] = 404 => t = "404"
                       /\ firstSet[r] = 7 => t = "007"

C3_Witness ==
    \E r \in Slots :
        /\ pc[r] = "returned"
        /\ firstSet[r] = 7
        /\ overwriteTried[r]
        /\ Entries(r, "end") # {}

\* Some value of X-Forwarded-For in header mapping h is not empty.
SomeForwardedValue(h) ==
    \E p \in h : p[1] = XFF /\ \E k \in DOMAIN p[2] : p[2][k] # ""

\* The first value of X-Forwarded-For in h is there and is not empty.
FirstForwardedValue(h) ==
    \E p \in h : p[1] = XFF /\ Len(p[2]) >= 1 /\ p[2][1] # ""

\* C4 as stated: the raw remote address is never what the start line shows
\* when a non-empty X-Forwarded-For value is present.
C4_AsStated ==
    \A i \in DOMAIN log :
        (log[i].kind = "start" /\ SomeForwardedValue(req[log[i].req].header)) =>
            AddrRun(log[i].line).text # req[log[i].req].remoteAddr

\* C4, amended: the address after "from " is the first value of
\* X-Forwarded-For when there is a first value and it is not empty, and the
\* raw remote address otherwise.
C4_FromIsFirstForwardedValue ==
    \A i \in DOMAIN log :
        log[i].kind = "start" =>
            LET R == req[log[i].req]
                a == AddrRun(log[i].line)
            IN  /\ a.color = "none"
                /\ IF FirstForwardedValue(R.header)
                   THEN \E p \in R.header : p[1] = XFF /\ a.text = p[2][1]
                   ELSE a.text = R.remoteAddr
                /\ StartsWith(Text(log[i].line),
                              Bracket(ctx[log[i].req]) \o "Started " \o R.method
                                  \o " \"" \o R.url \o "\" from ")

C4_Witness ==
    \E i \in DOMAIN log :
        /\ log[i].kind = "start"
        /\ \E p \in req[log[i].req].header :
              p[1] = XFF /\ Len(p[2]) = 2 /\ p[2][1] # ""
        /\ AddrRun(log[i].line).text = "10.0.0.5"

\* C5: after the loop of printHeaders, a verbose middleware has logged one
\* line per header key, "<key>: " followed by the values of that key joined
\* by ", " in order and nothing else; at no time is a key logged twice or a
\* line logged that is not the line of a key; without verbose no header
\* line is logged.
C5_OneLinePerHeaderKey ==
    \A r \in Slots :
        LET want(p) == Bracket(ctx[r]) \o p[1] \o ": " \o Join(p[2])
            got(p) == { i \in Entries(r, "header") : Text(log[i].line) = want(p) }
        IN  /\ ~verbose => Entries(r, "header") = {}
            /\ \A i \in Entries(r, "header") :
                   \E p \in req[r].header : Text(log[i].line) = want(p)
            /\ \A p \in req[r].header : Cardinality(got(p)) <= 1
            /\ (verbose /\ pc[r] \notin {"idle", "L38", "L40", "L63"}) =>
                   \A p \in req[r].header : Cardinality(got(p)) = 1

C5_Witness ==
    \E r \in Slots :
        /\ verbose
        /\ pc[r] = "L46"
        /\ Cardinality(req[r].header) = 3
        /\ Cardinality(Entries(r, "header")) = 3

\* The steps of one invocation, in order, for n header lines.
Order(n, end, default) ==
    <<"start">> \o Repeat("header", n) \o <<"t1", "call", end>>
        \o (IF default THEN <<"default">> ELSE <<>>) \o <<"t2", "end">>

\* C6: an invocation logs the start line, then the header lines (verbose
\* only), then calls the inner handler once, and logs the one end line only
\* after the inner handler has returned; it has returned to its caller only
\* when all of this is done.
C6_StepsInOrderOnce ==
    \A r \in Slots :
        LET n == IF verbose THEN Cardinality(req[r].header) ELSE 0
            kinds == [i \in 1..Len(SelectSeq(log, LAMBDA e : e.req = r))
                         |-> SelectSeq(log, LAMBDA e : e.req = r)[i].kind]
        IN  /\ \/ IsPrefixOf(events[r], Order(n, "ret", TRUE))
               \/ IsPrefixOf(events[r], Order(n, "ret", FALSE))
               \/ IsPrefixOf(events[r], <<"start">> \o Repeat("header", n)
                                            \o <<"t1", "call", "panic">>)
            /\ kinds = SelectSeq(events[r], LAMBDA e : e \in {"start", "header", "end"})
            /\ pc[r] = "inner" <=> (Has(r, "call") /\ ~Has(r, "ret") /\ ~Has(r, "panic"))
            /\ pc[r] = "returned" <=> Has(r, "end")
            /\ Has(r, "end") => Has(r, "ret")

C6_Witness ==
    \E r \in Slots :
        /\ pc[r] = "returned"
        /\ verbose
        /\ Cardinality(req[r].header) = 2
        /\ Len(events[r]) = 8

\* C7 as stated: the duration is not negative, the start instant is taken
\* after the start and header lines and right before the call, and the end
\* instant is taken right after the inner handler returns, before anything
\* else the middleware does.
C7_AsStated ==
    \A r \in Slots :
        /\ pc[r] \in {"L56", "returned"} => Sub(t2[r], t1[r]) >= 0
        /\ \A i \in DOMAIN events[r] :
               events[r][i] = "t1" =>
                   /\ \A j \in DOMAIN events[r] :
                          events[r][j] \in {"start", "header"} => j < i
                   /\ i < Len(events[r]) => events[r][i + 1] = "call"
        /\ \A i \in DOMAIN events[r] :
               events[r][i] = "ret" /\ i < Len(events[r]) => events[r][i + 1] = "t2"

\* C7, amended: the duration in the end line is t2 - t1 and is not negative;
\* t1 is taken after the start and header lines and right before the call;
\* t2 is taken after the inner handler has returned and after the write of
\* the default status, when there is one, and before the end line is
\* formatted: the write of the default status is inside the span, the
\* logging is not.
C7_SpanCoversCallAndDefault ==
    \A r \in Slots :
        /\ pc[r] \in {"L49", "inner", "L51", "L54", "panicked"} => t1[r] <= now
        /\ pc[r] \in {"L56", "returned"} =>
               /\ Sub(t2[r], t1[r]) >= 0
               /\ t2[r] <= now
        /\ \A i \in Entries(r, "end") :
               DurationRun(log[i].line).text = DurationString(t2[r] - t1[r])
        /\ \A i \in DOMAIN events[r] :
               /\ events[r][i] = "t1" =>
                      /\ \A j \in DOMAIN events[r] :
                             events[r][j] \in {"start", "header"} => j < i
                      /\ i < Len(events[r]) => events[r][i + 1] = "call"
               /\ events[r][i] = "t2" =>
                      /\ \E j \in 1..(i - 1) : events[r][j] = "ret"
                      /\ events[r][i - 1] \in {"ret", "default"}
                      /\ \A j \in DOMAIN events[r] : events[r][j] = "end" => i < j
               /\ events[r][i] = "default" =>
                      /\ events[r][i - 1] = "ret"
                      /\ i < Len(events[r]) => events[r][i + 1] = "t2"

C7_Witness ==
    \E r \in Slots :
        /\ pc[r] = "returned"
        /\ Has(r, "default")
        /\ t1[r] = 250
        /\ t2[r] - t1[r] = 4500
        /\ now > t2[r]

\* The status buckets and the duration buckets of the end line.
InStatusBucket(b, s) ==
    \/ b = 1 /\ s < 200
    \/ b = 2 /\ s >= 200 /\ s <= 299
    \/ b = 3 /\ s >= 300 /\ s <= 399
    \/ b = 4 /\ s >= 400 /\ s <= 499
    \/ b = 5 /\ s >= 500

InDurationBucket(b, d) ==
    \/ b = 1 /\ d < 500
    \/ b = 2 /\ d >= 500 /\ d < 5000
    \/ b = 3 /\ d >= 5000

\* C8: the status of an end line is in exactly one of the five buckets and
\* the duration in exactly one of the three, and each bucket has a colour of
\* its own; 500 ms is in the middle bucket and 5 s in the last.
C8_OneColourPerBucket ==
    \A r \in Slots : \A i \in Entries(r, "end") :
        LET s == Status(lw[r])
            d == t2[r] - t1[r]
            sc == <<"bBlue", "bGreen", "bCyan", "bYellow", "bRed">>
            dc == <<"nGreen", "nYellow", "nRed">>
        IN  /\ Cardinality({ b \in 1..5 : InStatusBucket(b, s) }) = 1
            /\ Cardinality({ b \in 1..3 : InDurationBucket(b, d) }) = 1
            /\ \A b \in 1..5 :
                   InStatusBucket(b, s) => StatusRun(log[i].line).color = sc[b]
            /\ \A b \in 1..3 :
                   InDurationBucket(b, d) => DurationRun(log[i].line).color = dc[b]
            /\ d = 500 => DurationRun(log[i].line).color = "nYellow"
            /\ d = 5000 => DurationRun(log[i].line).color = "nRed"

C8_Witness ==
    \E r \in Slots :
        /\ Entries(r, "end") # {}
        /\ Status(lw[r]) = 500
        /\ t2[r] - t1[r] = 5000

\* C9: with requests served at the same time, every log record is one whole
\* line of one request, made from that request's own request ID, status and
\* duration, and the start line of a request is in the log before its end
\* line.
C9_LinesAreWholeAndOwn ==
    /\ \A i \in DOMAIN log :
           LET r == log[i].req
               t == Text(log[i].line)
               own == IF firstSet[r] # 0 THEN firstSet[r] ELSE 200
           IN  /\ log[i].kind = "start" =>
                      t = Bracket(ctx[r]) \o "Started " \o req[r].method \o " \""
                              \o req[r].url \o "\" from " \o req[r].remoteAddr
               /\ log[i].kind = "header" =>
                      \E p \in req[r].header :
                          t = Bracket(ctx[r]) \o p[1] \o ": " \o Join(p[2])
               /\ log[i].kind = "end" =>
                      t = Bracket(ctx[r]) \o "Returning " \o Sprintf03d(own)
                              \o " in " \o DurationString(t2[r] - t1[r])
    /\ \A r \in Slots :
           /\ Cardinality(Entries(r, "start")) <= 1
           /\ Cardinality(Entries(r, "end")) <= 1
           /\ \A i \in Entries(r, "end") : \E j \in Entries(r, "start") : j < i

C9_Witness ==
    /\ \A r \in Slots : pc[r] = "returned" /\ ctx[r] # ""
    /\ firstSet[1] = 404 /\ firstSet[2] = 0
    /\ t2[1] - t1[1] # t2[2] - t1[2]
    /\ log[1].req # log[2].req
    /\ log[Len(log)].req # log[Len(log) - 1].req

\* C10: when the inner handler has panicked, no end line is logged for the
\* request, the default status is not written, nothing more is done by the
\* invocation, and the start line and the header lines logged before are
\* in the log.
C10_PanicPropagates ==
    \A r \in Slots :
        Has(r, "panic") =>
            /\ pc[r] = "panicked"
            /\ events[r][Len(events[r])] = "panic"
            /\ Entries(r, "end") = {}
            /\ ~Has(r, "default")
            /\ Status(lw[r]) = firstSet[r]
            /\ Cardinality(Entries(r, "start")) = 1
            /\ verbose => Cardinality(Entries(r, "header")) = Cardinality(req[r].header)

C10_Witness ==
    \E r \in Slots :
        /\ pc[r] = "panicked"
        /\ firstSet[r] = 0
        /\ verbose
        /\ Cardinality(Entries(r, "header")) = 2

====
